---- MODULE Spec2Model ----
(***************************************************************************)
(* Model of the AgoraX real-time server (src/unnamed/part_001): the global *)
(* presence list onlineUsers, the room table rooms, the transport-level    *)
(* room subscriptions kept by Socket.IO, and the broadcasts each event     *)
(* handler emits.  Node runs one handler to completion before the next     *)
(* starts, so each handler is one action; the only suspension point is the *)
(* await on fetch in joinRoom (after all table work) and the callback of   *)
(* fs.appendFile in sendMessage, which are modelled as in-flight work      *)
(* settled by separate actions.  The sendMessage handler is split where it *)
(* enters its synchronous file system calls: while they run, the event     *)
(* loop is held and no other handler or callback is enabled.               *)
(***************************************************************************)
EXTENDS Integers, Sequences, FiniteSets, TLC

\* ---------------------------------------------------------------- bounds
MaxMembers == 2
MaxMsgs == 1
MaxMsgsInherited == 2
MaxInFlight == 1
MaxMembersNamed == 3

\* ---------------------------------------------------------------- inputs
\* Socket ids of the connections the transport accepts.
Conns == {"c1", "c2"}

\* JavaScript undefined: a destructured field the payload does not carry.
Undefined == "<undefined>"

\* Room ids a client may send: ordinary names, the name of a property that
\* every object literal inherits from Object.prototype, and none.
RoomIds == {"r1", "r2"}
InheritedRoomIds == {"r1", "constructor"}
MissingRoomIds == {"r1", Undefined}
UserIds == {"u1", "", Undefined}
Usernames == {"Alice", Undefined}
Emails == {"a@x.io", Undefined}
Authors == {"Alice"}
Texts == {"hi"}

\* Values crypto.randomUUID() returns, in the order it returns them.
UuidPool == <<"uuid-1", "uuid-2", "uuid-3", "uuid-4">>

\* Scope of io.emit: every socket of the namespace.
Everyone == "<all>"

\* ----------------------------------------------------------------- state
VARIABLES
  status,       \* socket.connected per connection: "new", "open", "closed"
  onlineUsers,  \* sequence of [socketId, userId]
  rooms,        \* own properties of the rooms object, in insertion order:
                \* sequence of [roomId, users], users a sequence of
                \* [socketId, username]
  subs,         \* adapter rooms each socket has joined (socket.join/leave)
  emitted,      \* broadcasts of the event handler that ran last, in order
  last,         \* the event that handler ran for: its name, its socket, and
                \* whether the handler left a fetch or an appendFile in flight
  crashed,      \* an uncaught error has terminated the process
  pending,      \* fetch calls of joinRoom still in flight
  appending,    \* fs.appendFile calls of sendMessage still in flight
  usedIds,      \* message ids generated so far
  syncFs        \* the sendMessage handler is inside its synchronous file
                \* system calls (existsSync, mkdirSync): the event loop is held

vars == <<status, onlineUsers, rooms, subs, emitted, last, crashed,
          pending, appending, usedIds, syncFs>>

\* --------------------------------------------------------------- helpers
\* Variant: the guard tests for a missing value only (v === undefined).
Truthy_UndefinedOnly(v) == v # Undefined

\* !v of JavaScript for the values the handlers test.
Truthy(v) == v # Undefined /\ v # ""

\* list.some(u => u.socketId === c)
HasEntry(list, c) == \E i \in 1..Len(list) : list[i].socketId = c

\* Array.prototype.filter(u => u.socketId !== socket.id)
FilterOut(list, c) == SelectSeq(list, LAMBDA u : u.socketId # c)

\* Array.prototype.findIndex(u => u.socketId === socket.id); 0 stands for -1.
FindIndex(list, c) ==
  IF \E i \in 1..Len(list) : list[i].socketId = c
  THEN CHOOSE i \in 1..Len(list) :
         /\ list[i].socketId = c
         /\ \A j \in 1..(i - 1) : list[j].socketId # c
  ELSE 0

\* Property key of rooms[roomId]: the key is converted to a string.
RoomKey(roomId) == IF roomId = Undefined THEN "undefined" ELSE roomId

\* Properties rooms = {} inherits from Object.prototype (all truthy, none an
\* array, none enumerable).
ObjectPrototypeKeys ==
  {"constructor", "toString", "valueOf", "hasOwnProperty", "__proto__"}

\* Index of the own property RoomKey(roomId) in rooms; 0 when there is none.
RoomIndex(rs, roomId) ==
  IF \E i \in 1..Len(rs) : rs[i].roomId = RoomKey(roomId)
  THEN CHOOSE i \in 1..Len(rs) : rs[i].roomId = RoomKey(roomId)
  ELSE 0

\* rooms[roomId] reads an inherited, non-array value.
Inherited(rs, roomId) ==
  RoomIndex(rs, roomId) = 0 /\ RoomKey(roomId) \in ObjectPrototypeKeys

\* rooms[roomId] as a list; the empty list when the key is not an own one.
RoomUsers(rs, roomId) ==
  IF RoomIndex(rs, roomId) = 0 THEN <<>> ELSE rs[RoomIndex(rs, roomId)].users

RECURSIVE TotalMembers(_)
TotalMembers(rs) ==
  IF rs = <<>> THEN 0 ELSE Len(Head(rs).users) + TotalMembers(Tail(rs))

\* Variant: the broadcast goes to the sockets the room table lists for the
\* room before the handler ran, not to the adapter room.
RoomSockets_Listed(sb, room) == {c \in Conns : HasEntry(RoomUsers(rooms, room), c)}

\* Variant: the broadcast is not scoped to the room (io.emit for
\* io.to(room).emit).
RoomSockets_Everyone(sb, room) == DOMAIN sb

\* Sockets an io.to(room).emit reaches: those that joined the adapter room.
RoomSockets(sb, room) == {c \in Conns : room \in sb[c]}

\* Sockets an io.emit reaches: the connected sockets of the namespace.
AllSockets(st) == {c \in Conns : st[c] = "open"}

Emit(event, room, payload, to) ==
  [event |-> event, room |-> room, payload |-> payload, to |-> to]

Event(ev, c, io) == [ev |-> ev, conn |-> c, io |-> io]

\* No socket: nothing has been handled yet.
NoConn == "-"

Running == ~crashed

\* The event loop is free to run the next handler or callback.
Idle == Running /\ ~syncFs

\* Fetch and appendFile calls in flight.
InFlight == pending + appending

\* ---------------------------------------------------------------- Init
Init ==
  /\ status = [c \in Conns |-> "new"]
  /\ onlineUsers = <<>>
  /\ rooms = <<>>
  /\ subs = [c \in Conns |-> {}]
  /\ emitted = <<>>
  /\ last = Event("init", NoConn, FALSE)
  /\ crashed = FALSE
  /\ pending = 0
  /\ appending = 0
  /\ usedIds = {}
  /\ syncFs = FALSE

\* An error no handler catches ends the Node process: the tables, the
\* adapter rooms and the work in flight go with it, and every socket is
\* dropped without its disconnect handler being run.
Terminate(ev, c) ==
  /\ crashed' = TRUE
  /\ last' = Event(ev, c, FALSE)
  /\ status' = [s \in Conns |-> IF status[s] = "open" THEN "closed" ELSE status[s]]
  /\ onlineUsers' = <<>>
  /\ rooms' = <<>>
  /\ subs' = [s \in Conns |-> {}]
  /\ emitted' = <<>>
  /\ pending' = 0
  /\ appending' = 0
  /\ usedIds' = {}
  /\ syncFs' = FALSE

\* ------------------------------------------------------------ connection
\* io.on("connection")
Connect(c) ==
  /\ Idle
  /\ status[c] = "new"
  /\ status' = [status EXCEPT ![c] = "open"]
  /\ onlineUsers' = Append(onlineUsers, [socketId |-> c, userId |-> ""])
  /\ emitted' = <<Emit("usersOnline", Everyone, onlineUsers', AllSockets(status'))>>
  /\ last' = Event("connect", c, FALSE)
  /\ crashed' = FALSE
  /\ UNCHANGED <<rooms, subs, pending, appending, usedIds, syncFs>>

\* --------------------------------------------------------------- newUser
\* Variant: the entry is pushed without looking for an existing one.
IdentifyUser_Push(list, c, userId) ==
  Append(list, [socketId |-> c, userId |-> userId])

\* Variant: entries that carry the same userId are taken over by this socket
\* (the map of the older handler, src/unnamed/part_002 lines 45-47).
IdentifyUser_Merge(list, c, userId) ==
  [i \in 1..Len(list) |->
     IF list[i].socketId = c \/ list[i].userId = userId
     THEN [socketId |-> c, userId |-> userId]
     ELSE list[i]]

\* The update of onlineUsers in socket.on("newUser") for a truthy userId.
IdentifyUser(list, c, userId) ==
  LET index == FindIndex(list, c)
  IN  IF index # 0
      THEN [list EXCEPT ![index].userId = userId]
      ELSE Append(list, [socketId |-> c, userId |-> userId])

\* socket.on("newUser")
NewUser(c, userId) ==
  /\ Idle
  /\ status[c] = "open"
  /\ IF ~Truthy(userId)
     THEN /\ onlineUsers' = onlineUsers
          /\ emitted' = <<>>
     ELSE /\ onlineUsers' = IdentifyUser(onlineUsers, c, userId)
          /\ emitted' = <<Emit("usersOnline", Everyone, onlineUsers', AllSockets(status))>>
  /\ last' = Event("newUser", c, FALSE)
  /\ crashed' = FALSE
  /\ UNCHANGED <<status, rooms, subs, pending, appending, usedIds, syncFs>>

\* -------------------------------------------------------------- joinRoom
\* Variant: an earlier entry of the socket is replaced by the new one
\* (members de-duplicated by socket id).
PushMember_Dedup(rs, c, roomId, username) ==
  LET created == IF RoomIndex(rs, roomId) = 0
                 THEN Append(rs, [roomId |-> RoomKey(roomId), users |-> <<>>])
                 ELSE rs
      i == RoomIndex(created, roomId)
  IN  [created EXCEPT ![i].users =
         Append(FilterOut(@, c), [socketId |-> c, username |-> username])]

\* Variant: the list is assigned instead of extended
\* (rooms[roomId] = [{...}]).
PushMember_Overwrite(rs, c, roomId, username) ==
  LET created == IF RoomIndex(rs, roomId) = 0
                 THEN Append(rs, [roomId |-> RoomKey(roomId), users |-> <<>>])
                 ELSE rs
      i == RoomIndex(created, roomId)
  IN  [created EXCEPT ![i].users = <<[socketId |-> c, username |-> username]>>]

\* if (!rooms[roomId]) rooms[roomId] = []; rooms[roomId].push({...})
PushMember(rs, c, roomId, username) ==
  LET created == IF RoomIndex(rs, roomId) = 0
                 THEN Append(rs, [roomId |-> RoomKey(roomId), users |-> <<>>])
                 ELSE rs
      i == RoomIndex(created, roomId)
  IN  [created EXCEPT ![i].users =
         Append(@, [socketId |-> c, username |-> username])]

\* Variant: the broadcast is emitted before socket.join is called, to the
\* sockets subscribed until then.
JoinRoom_EmitBeforeJoin(c, roomId, username, email) ==
  /\ Idle
  /\ status[c] = "open"
  /\ subs' = [subs EXCEPT ![c] = @ \cup {roomId}]
  /\ IF Inherited(rooms, roomId)
     THEN /\ rooms' = rooms
          /\ emitted' = <<>>
          /\ pending' = pending
     ELSE /\ Truthy(email) => InFlight < MaxInFlight
          /\ rooms' = PushMember(rooms, c, roomId, username)
          /\ emitted' = <<Emit("roomUsers", roomId, RoomUsers(rooms', roomId),
                               RoomSockets(subs, roomId))>>
          /\ pending' = IF Truthy(email) THEN pending + 1 ELSE pending
  /\ last' = Event("joinRoom", c, ~Inherited(rooms, roomId) /\ Truthy(email))
  /\ crashed' = FALSE
  /\ UNCHANGED <<status, onlineUsers, appending, usedIds, syncFs>>

\* socket.on("joinRoom") with a payload object.  socket.join comes first;
\* when rooms[roomId] is an inherited property, push is not a function and
\* the TypeError ends the handler in its outer catch.
JoinRoom(c, roomId, username, email) ==
  /\ Idle
  /\ status[c] = "open"
  /\ subs' = [subs EXCEPT ![c] = @ \cup {roomId}]
  /\ IF Inherited(rooms, roomId)
     THEN /\ rooms' = rooms
          /\ emitted' = <<>>
          /\ pending' = pending
     ELSE /\ Truthy(email) => InFlight < MaxInFlight
          /\ rooms' = PushMember(rooms, c, roomId, username)
          /\ emitted' = <<Emit("roomUsers", roomId, RoomUsers(rooms', roomId),
                               RoomSockets(subs', roomId))>>
          /\ pending' = IF Truthy(email) THEN pending + 1 ELSE pending
  /\ last' = Event("joinRoom", c, ~Inherited(rooms, roomId) /\ Truthy(email))
  /\ crashed' = FALSE
  /\ UNCHANGED <<status, onlineUsers, appending, usedIds, syncFs>>

\* socket.on("joinRoom") called without a payload: destructuring undefined
\* rejects the promise of the async handler before its try block is entered;
\* nothing handles the rejection.
JoinRoomNoPayload(c) ==
  /\ Idle
  /\ status[c] = "open"
  /\ Terminate("joinRoom", c)

\* Variant: the await has no try around it, so a rejected fetch rejects the
\* promise of the handler and nothing handles it.
FetchSettle_Unhandled(ok) ==
  /\ Idle
  /\ pending > 0
  /\ IF ok
     THEN /\ pending' = pending - 1
          /\ UNCHANGED <<status, onlineUsers, rooms, subs, emitted, last, crashed,
                         appending, usedIds, syncFs>>
     ELSE Terminate("joinRoom", NoConn)

\* The fetch that a joinRoom handler awaits settles; a rejection is
\* logged by the inner catch.  Nothing runs after the await: no table is
\* touched and nothing is emitted.
FetchSettle(ok) ==
  /\ Idle
  /\ pending > 0
  /\ pending' = pending - 1
  /\ UNCHANGED <<status, onlineUsers, rooms, subs, emitted, last, crashed,
                 appending, usedIds, syncFs>>

\* ------------------------------------------------------------- leaveRoom
\* Variant: only the first entry of the socket is removed
\* (splice(findIndex(...), 1)).
RemoveMember_FirstOnly(rs, c, roomId) ==
  LET i == RoomIndex(rs, roomId)
      us == rs[i].users
      k == FindIndex(us, c)
  IN  IF k = 0 THEN rs
      ELSE [rs EXCEPT ![i].users = SubSeq(us, 1, k - 1) \o SubSeq(us, k + 1, Len(us))]

\* rooms[roomId] = rooms[roomId].filter(u => u.socketId !== socket.id)
RemoveMember(rs, c, roomId) ==
  [rs EXCEPT ![RoomIndex(rs, roomId)].users = FilterOut(@, c)]

\* socket.on("leaveRoom").  socket.leave comes first; an inherited
\* rooms[roomId] is truthy and has no filter, and the handler has no catch.
LeaveRoom(c, roomId) ==
  /\ Idle
  /\ status[c] = "open"
  /\ IF Inherited(rooms, roomId)
     THEN Terminate("leaveRoom", c)
     ELSE /\ subs' = [subs EXCEPT ![c] = @ \ {roomId}]
          /\ IF RoomIndex(rooms, roomId) # 0
             THEN /\ rooms' = RemoveMember(rooms, c, roomId)
                  /\ emitted' = <<Emit("roomUsers", roomId, RoomUsers(rooms', roomId),
                                       RoomSockets(subs', roomId))>>
             ELSE /\ rooms' = rooms
                  /\ emitted' = <<>>
          /\ last' = Event("leaveRoom", c, FALSE)
          /\ crashed' = FALSE
          /\ UNCHANGED <<status, onlineUsers, pending, appending, usedIds, syncFs>>

\* ----------------------------------------------------------- sendMessage
\* crypto.randomUUID(): an id it has not returned before (a version 4 UUID
\* repeats with negligible probability).  Which unused id it returns does not
\* matter to any handler, so the first unused one of the pool stands for it.
RandomUUID(used) ==
  UuidPool[CHOOSE i \in 1..Len(UuidPool) :
             /\ UuidPool[i] \notin used
             /\ \A j \in 1..(i - 1) : UuidPool[j] \in used]

\* Variant: the message is sent to the socket of each entry of the member
\* list in turn (rooms[roomId].forEach(u => io.to(u.socketId).emit(...))).
SendMessage_PerEntry(c, roomId, user, text) ==
  /\ Idle
  /\ status[c] = "open"
  /\ LET id == RandomUUID(usedIds)
         users == RoomUsers(rooms, roomId)
     IN  /\ usedIds' = usedIds \cup {id}
         /\ emitted' = [i \in 1..Len(users) |->
                          Emit("message", roomId,
                               [id |-> id, user |-> user, text |-> text],
                               {users[i].socketId})]
  /\ syncFs' = TRUE
  /\ last' = Event("sendMessage", c, FALSE)
  /\ crashed' = FALSE
  /\ UNCHANGED <<status, onlineUsers, rooms, subs, pending, appending>>

\* Variant: the handler subscribes the sender to the room it writes to
\* (socket.join(roomId) before the emit).
SendMessage_AutoJoin(c, roomId, user, text) ==
  /\ Idle
  /\ status[c] = "open"
  /\ subs' = [subs EXCEPT ![c] = @ \cup {roomId}]
  /\ LET id == RandomUUID(usedIds)
     IN  /\ usedIds' = usedIds \cup {id}
         /\ emitted' = <<Emit("message", roomId,
                              [id |-> id, user |-> user, text |-> text],
                              RoomSockets(subs', roomId))>>
  /\ syncFs' = TRUE
  /\ last' = Event("sendMessage", c, FALSE)
  /\ crashed' = FALSE
  /\ UNCHANGED <<status, onlineUsers, rooms, pending, appending>>

\* socket.on("sendMessage") with a payload object, up to its first
\* synchronous file system call: the message is emitted, then the handler
\* sits in existsSync / mkdirSync and nothing else runs.
SendMessage(c, roomId, user, text) ==
  /\ Idle
  /\ status[c] = "open"
  /\ LET id == RandomUUID(usedIds)
     IN  /\ usedIds' = usedIds \cup {id}
         /\ emitted' = <<Emit("message", roomId,
                              [id |-> id, user |-> user, text |-> text],
                              RoomSockets(subs, roomId))>>
  /\ syncFs' = TRUE
  /\ last' = Event("sendMessage", c, FALSE)
  /\ crashed' = FALSE
  /\ UNCHANGED <<status, onlineUsers, rooms, subs, pending, appending>>

\* The synchronous file system calls of sendMessage return and the handler
\* ends.  fsOk: they succeeded and fs.appendFile is started; otherwise one of
\* them threw, the catch logs it and no appendFile is started.
TranscriptSync(fsOk) ==
  /\ Running
  /\ syncFs
  /\ fsOk => InFlight < MaxInFlight
  /\ syncFs' = FALSE
  /\ appending' = IF fsOk THEN appending + 1 ELSE appending
  /\ last' = [last EXCEPT !.io = fsOk]
  /\ UNCHANGED <<status, onlineUsers, rooms, subs, emitted, crashed,
                 pending, usedIds>>

\* socket.on("sendMessage") called without a payload: destructuring
\* undefined throws in the listener.
SendMessageNoPayload(c) ==
  /\ Idle
  /\ status[c] = "open"
  /\ Terminate("sendMessage", c)

\* The callback of fs.appendFile runs; an error is logged.
AppendSettle(ok) ==
  /\ Idle
  /\ appending > 0
  /\ appending' = appending - 1
  /\ UNCHANGED <<status, onlineUsers, rooms, subs, emitted, last, crashed,
                 pending, usedIds, syncFs>>

\* ------------------------------------------------------------ disconnect
\* Variant: the loop stops at the first room that holds the socket (break).
RemoveFromAllRooms_FirstHit(rs, c) ==
  [i \in 1..Len(rs) |->
     IF \E j \in 1..(i - 1) : HasEntry(rs[j].users, c)
     THEN rs[i]
     ELSE [rs[i] EXCEPT !.users = FilterOut(@, c)]]

\* The loop body's assignment, for every own key of rooms.
RemoveFromAllRooms(rs, c) ==
  [i \in 1..Len(rs) |-> [rs[i] EXCEPT !.users = FilterOut(@, c)]]

\* Variant: the broadcasts carry the lists as they were before the filter
\* (emit placed before the assignment).
DisconnectRoomEmits_BeforeFilter(rs, sb) ==
  [i \in 1..Len(rooms) |->
     Emit("roomUsers", rooms[i].roomId, rooms[i].users,
          RoomSockets(sb, rooms[i].roomId))]

\* The roomUsers broadcasts of the loop in socket.on("disconnect"), one per
\* iteration; rs is the table as the loop leaves it.
DisconnectRoomEmits(rs, sb) ==
  [i \in 1..Len(rs) |->
     Emit("roomUsers", rs[i].roomId, rs[i].users, RoomSockets(sb, rs[i].roomId))]

\* Variant: the filter keeps the entries it should drop (=== for !==).
RemoveUser_Inverted(list, c) == SelectSeq(list, LAMBDA u : u.socketId = c)

\* onlineUsers = onlineUsers.filter(u => u.socketId !== socket.id)
RemoveUser(list, c) == FilterOut(list, c)

\* socket.on("disconnect").  Socket.IO has left all adapter rooms and removed
\* the socket from the namespace before it emits the event.
Disconnect(c) ==
  /\ Idle
  /\ status[c] = "open"
  /\ status' = [status EXCEPT ![c] = "closed"]
  /\ subs' = [subs EXCEPT ![c] = {}]
  /\ rooms' = RemoveFromAllRooms(rooms, c)
  /\ onlineUsers' = RemoveUser(onlineUsers, c)
  /\ emitted' = DisconnectRoomEmits(rooms', subs')
                  \o <<Emit("usersOnline", Everyone, onlineUsers', AllSockets(status'))>>
  /\ last' = Event("disconnect", c, FALSE)
  /\ crashed' = FALSE
  /\ UNCHANGED <<pending, appending, usedIds, syncFs>>

\* ------------------------------------------------------------------ Next
\* One handler runs, for an event whose payload fields are drawn from the
\* given sets; at most maxMsgs messages are relayed and at most maxMembers
\* member entries are held.
Handle(roomIds, userIds, usernames, emails, maxMsgs, maxMembers) ==
  \/ \E c \in Conns : Connect(c)
  \/ \E c \in Conns, userId \in userIds : NewUser(c, userId)
  \/ \E c \in Conns, roomId \in roomIds, username \in usernames, email \in emails :
       /\ Inherited(rooms, roomId) \/ TotalMembers(rooms) < maxMembers
       /\ JoinRoom(c, roomId, username, email)
  \/ \E c \in Conns : JoinRoomNoPayload(c)
  \/ \E ok \in BOOLEAN : FetchSettle(ok)
  \/ \E c \in Conns, roomId \in roomIds : LeaveRoom(c, roomId)
  \/ \E c \in Conns, roomId \in roomIds, user \in Authors, text \in Texts :
       Cardinality(usedIds) < maxMsgs /\ SendMessage(c, roomId, user, text)
  \/ \E fsOk \in BOOLEAN : TranscriptSync(fsOk)
  \/ \E c \in Conns : SendMessageNoPayload(c)
  \/ \E ok \in BOOLEAN : AppendSettle(ok)
  \/ \E c \in Conns : Disconnect(c)

\* Well-formed traffic: every joinRoom names an ordinary room and a display
\* name.
Next == Handle(RoomIds, UserIds, {"Alice"}, Emails, MaxMsgs, MaxMembers)

Spec == Init /\ [][Next]_vars

\* Traffic in which a room id may name a property rooms inherits.
NextInherited ==
  Handle(InheritedRoomIds, UserIds, {"Alice"}, Emails, MaxMsgsInherited, MaxMembers)

SpecInherited == Init /\ [][NextInherited]_vars

\* Traffic in which a joinRoom may lack its roomId or its display name.
NextMissing == Handle(MissingRoomIds, UserIds, Usernames, Emails, MaxMsgs, MaxMembers)

SpecMissing == Init /\ [][NextMissing]_vars

\* Traffic of one room in which members carry different display names.
NamedUsernames == {"Alice", "Bob"}

NextNamed == Handle({"r1"}, {"u1"}, NamedUsernames, Emails, MaxMsgs, MaxMembersNamed)

SpecNamed == Init /\ [][NextNamed]_vars

\* ================================================================ claims
\* The step ends a handler run for event ev of socket c.
Handled(ev, c) == last'.ev = ev /\ last'.conn = c

\* C1: in every reachable state the global presence list onlineUsers holds
\* at most one entry per connection id.
C1_OneEntryPerConnection ==
  \A i, j \in 1..Len(onlineUsers) :
    onlineUsers[i].socketId = onlineUsers[j].socketId => i = j

\* Both connections are listed and one of them has identified itself.
C1_Witness ==
  /\ Len(onlineUsers) = 2
  /\ last.ev = "newUser"
  /\ \E i \in 1..2 : onlineUsers[i].socketId = last.conn /\ onlineUsers[i].userId = "u1"

\* C2: once every connection that connected has disconnected, whatever
\* events were handled in between, onlineUsers is empty.
C2_EmptyAfterAllDisconnects ==
  (\A c \in Conns : status[c] # "open") => onlineUsers = <<>>

\* Both connections have come and gone, rooms were joined, the process runs.
C2_Witness ==
  /\ \A c \in Conns : status[c] = "closed"
  /\ ~crashed
  /\ rooms # <<>>
  /\ last.ev = "disconnect"

\* C3: newUser with an empty or absent userId changes neither onlineUsers nor
\* rooms and emits no usersOnline broadcast.
C3_EmptyUserIdIsNoOp ==
  [][\A c \in Conns, userId \in {"", Undefined} :
       Handled("newUser", c) /\ NewUser(c, userId) =>
         /\ onlineUsers' = onlineUsers
         /\ rooms' = rooms
         /\ \A i \in 1..Len(emitted') : emitted'[i].event # "usersOnline"]_vars

\* A newUser that emitted nothing has been handled while both tables hold
\* entries.
C3_Witness ==
  /\ last.ev = "newUser"
  /\ emitted = <<>>
  /\ onlineUsers # <<>>
  /\ rooms # <<>>

\* C4: newUser(c, u) with a non-empty u overwrites the userId of c's entry in
\* place, or appends {c, u} when c has no entry; the entries of all other
\* connections stay as they are, also those that carry the same userId; and
\* exactly one usersOnline broadcast, carrying the new list, follows.
C4_IdentifyUpdatesOwnEntryOnly ==
  [][\A c \in Conns, userId \in {u \in UserIds : u # "" /\ u # Undefined} :
       Handled("newUser", c) /\ NewUser(c, userId) =>
         /\ IF HasEntry(onlineUsers, c)
            THEN /\ Len(onlineUsers') = Len(onlineUsers)
                 /\ \A i \in 1..Len(onlineUsers) :
                      onlineUsers'[i] =
                        IF onlineUsers[i].socketId = c
                        THEN [socketId |-> c, userId |-> userId]
                        ELSE onlineUsers[i]
            ELSE onlineUsers' =
                   Append(onlineUsers, [socketId |-> c, userId |-> userId])
         /\ Len(emitted') = 1
         /\ emitted'[1].event = "usersOnline"
         /\ emitted'[1].payload = onlineUsers']_vars

\* A newUser has been handled after which two connections carry the same
\* userId.
C4_Witness ==
  /\ last.ev = "newUser"
  /\ Len(emitted) = 1
  /\ Len(onlineUsers) = 2
  /\ onlineUsers[1].userId = "u1"
  /\ onlineUsers[2].userId = "u1"
  /\ onlineUsers[1].socketId # onlineUsers[2].socketId

\* Entries of a list that belong to other connections than c, in order.
OthersOf(list, c) == SelectSeq(list, LAMBDA u : u.socketId # c)

\* Positions of the broadcasts of an event in a sequence of emissions.
Emissions(es, event) == {i \in 1..Len(es) : es[i].event = event}

\* C5: after leaveRoom(c, r) the member list of r holds no entry of c,
\* however many entries c had in it; and a leaveRoom(c, r) of a connection
\* without an entry in r (a second leave, a non-member) leaves the list as it
\* is.
C5_LeaveRemovesAllOwnEntries ==
  [][\A c \in Conns, r \in RoomIds :
       Handled("leaveRoom", c) /\ LeaveRoom(c, r) =>
         /\ ~HasEntry(RoomUsers(rooms', r), c)
         /\ OthersOf(RoomUsers(rooms', r), c) = OthersOf(RoomUsers(rooms, r), c)
         /\ ~HasEntry(RoomUsers(rooms, r), c) =>
              RoomUsers(rooms', r) = RoomUsers(rooms, r)]_vars

\* A leaveRoom has been handled for a room whose list still holds an entry,
\* none of it of the leaving connection.
C5_Witness ==
  /\ last.ev = "leaveRoom"
  /\ Len(emitted) = 1
  /\ emitted[1].event = "roomUsers"
  /\ emitted[1].payload # <<>>
  /\ ~HasEntry(emitted[1].payload, last.conn)
  /\ emitted[1].payload = RoomUsers(rooms, emitted[1].room)

\* Rooms in which c has a member entry.
RoomsOf(rs, c) == {rs[i].roomId : i \in {j \in 1..Len(rs) : HasEntry(rs[j].users, c)}}

\* C6: the disconnect handler emits exactly one roomUsers broadcast for each
\* room the connection was a member of, and roomUsers broadcasts for no other
\* room.
C6_BroadcastsOnlyForAffectedRooms ==
  [][\A c \in Conns :
       Handled("disconnect", c) /\ Disconnect(c) =>
         /\ \A r \in RoomsOf(rooms, c) :
              Cardinality({i \in Emissions(emitted', "roomUsers") :
                             emitted'[i].room = r}) = 1
         /\ \A i \in Emissions(emitted', "roomUsers") :
              emitted'[i].room \in RoomsOf(rooms, c)]_vars

\* The part of C6 the handler satisfies: exactly one roomUsers broadcast for
\* each room the connection was a member of (it emits one for every room of
\* the table).
C6_OneBroadcastPerRoomOfTheTable ==
  [][\A c \in Conns :
       Handled("disconnect", c) /\ Disconnect(c) =>
         /\ RoomsOf(rooms, c) \subseteq {rooms[i].roomId : i \in 1..Len(rooms)}
         /\ \A k \in 1..Len(rooms) :
              Cardinality({i \in Emissions(emitted', "roomUsers") :
                             emitted'[i].room = rooms[k].roomId}) = 1]_vars

\* C7: after disconnect(c) no room has a member entry of c and onlineUsers
\* has no entry of c; the entries of all other connections are as before, in
\* both tables; and one usersOnline broadcast is emitted, after the roomUsers
\* broadcasts.
C7_DisconnectRemovesEverywhere ==
  [][\A c \in Conns :
       Handled("disconnect", c) /\ Disconnect(c) =>
         /\ \A i \in 1..Len(rooms') : ~HasEntry(rooms'[i].users, c)
         /\ ~HasEntry(onlineUsers', c)
         /\ OthersOf(onlineUsers', c) = OthersOf(onlineUsers, c)
         /\ Len(rooms') = Len(rooms)
         /\ \A i \in 1..Len(rooms) :
              /\ rooms'[i].roomId = rooms[i].roomId
              /\ OthersOf(rooms'[i].users, c) = OthersOf(rooms[i].users, c)
         /\ Emissions(emitted', "usersOnline") = {Len(emitted')}
         /\ Emissions(emitted', "roomUsers") = 1..(Len(emitted') - 1)]_vars

\* A disconnect has been handled while the table has two rooms: it emitted
\* two roomUsers broadcasts and then usersOnline; one room is left empty, the
\* other still holds an entry of the connection that stays.
C7_Witness ==
  /\ last.ev = "disconnect"
  /\ Len(rooms) = 2
  /\ Len(emitted) = 3
  /\ Len(onlineUsers) = 1
  /\ \E i \in 1..2 : HasEntry(rooms[i].users, onlineUsers[1].socketId)
  /\ \E i \in 1..2 : rooms[i].users = <<>>

\* C8: a joinRoom for room r keeps every entry r's list holds and adds the
\* entry of the joining connection, also while the backend notification of an
\* earlier join is pending, and the completion of a notification changes no
\* list: of two joins to r, in either order, neither is lost.
C8_NoLostJoin ==
  [][/\ \A c \in Conns, r \in RoomIds, n \in Usernames, e \in Emails :
          Handled("joinRoom", c) /\ JoinRoom(c, r, n, e) =>
            /\ Len(RoomUsers(rooms', r)) = Len(RoomUsers(rooms, r)) + 1
            /\ SubSeq(RoomUsers(rooms', r), 1, Len(RoomUsers(rooms, r)))
                 = RoomUsers(rooms, r)
            /\ RoomUsers(rooms', r)[Len(RoomUsers(rooms', r))].socketId = c
     /\ \A ok \in BOOLEAN : FetchSettle(ok) => rooms' = rooms]_vars

\* The second of two joins to one room has just been handled; it started no
\* notification itself while the one of an earlier join is still pending, and
\* the list holds the entries of both connections.
C8_Witness ==
  /\ last.ev = "joinRoom"
  /\ ~last.io
  /\ pending > 0
  /\ \E r \in RoomIds :
       /\ Len(RoomUsers(rooms, r)) = 2
       /\ RoomUsers(rooms, r)[1].socketId # last.conn
       /\ RoomUsers(rooms, r)[2].socketId = last.conn

\* C9: sendMessage(r, author, text) produces exactly one message; its id is
\* not empty and differs from the id of every message produced before; and
\* the message goes to every connection subscribed to r when the event is
\* handled, whether or not the room table lists that connection.
C9_RelayToSubscribers ==
  [][\A c \in Conns, r \in InheritedRoomIds, user \in Authors, text \in Texts :
       Handled("sendMessage", c) /\ SendMessage(c, r, user, text) =>
         /\ Len(emitted') = 1
         /\ emitted'[1].event = "message"
         /\ emitted'[1].room = r
         /\ emitted'[1].payload.id # ""
         /\ emitted'[1].payload.id \notin usedIds
         /\ usedIds' = usedIds \cup {emitted'[1].payload.id}
         /\ emitted'[1].payload.user = user
         /\ emitted'[1].payload.text = text
         /\ emitted'[1].to = {s \in Conns : r \in subs[s]}]_vars

\* A second message has been relayed to a room with a subscriber that the
\* room table does not list.
C9_Witness ==
  /\ last.ev = "sendMessage"
  /\ Cardinality(usedIds) = 2
  /\ Len(emitted) = 1
  /\ \E s \in emitted[1].to : ~HasEntry(RoomUsers(rooms, emitted[1].room), s)

\* C10: a joinRoom whose payload lacks the roomId or the display name changes
\* neither the room table, nor the subscriptions, nor onlineUsers, emits no
\* roomUsers broadcast and raises no error.
C10_JoinWithMissingFieldIsNoOp ==
  [][\A c \in Conns, r \in MissingRoomIds, n \in Usernames, e \in Emails :
       /\ r = Undefined \/ n = Undefined
       /\ Handled("joinRoom", c)
       /\ JoinRoom(c, r, n, e)
       => /\ rooms' = rooms
          /\ subs' = subs
          /\ onlineUsers' = onlineUsers
          /\ Emissions(emitted', "roomUsers") = {}
          /\ ~crashed']_vars

\* C11: leaveRoom(c, r) for a room r the room table does not hold treats r as
\* an empty room: one roomUsers broadcast carrying the empty list is emitted
\* for r, and no error is raised.
C11_LeaveOfUnknownRoomBroadcastsEmptyList ==
  [][\A c \in Conns, r \in RoomIds :
       /\ RoomIndex(rooms, r) = 0
       /\ Handled("leaveRoom", c)
       /\ LeaveRoom(c, r)
       => /\ ~crashed'
          /\ Len(emitted') = 1
          /\ emitted'[1].event = "roomUsers"
          /\ emitted'[1].room = r
          /\ emitted'[1].payload = <<>>]_vars

\* Connection ids that appear in the member list of room r.
MembersOf(rs, r) == {RoomUsers(rs, r)[i].socketId : i \in 1..Len(RoomUsers(rs, r))}

\* C12: in every state between event handlers, for every room id r, the set
\* of connections subscribed to r at the transport layer equals the set of
\* connection ids in r's member list of the room table.
C12_SubscriptionsMatchTable ==
  \A r \in InheritedRoomIds : RoomSockets(subs, r) = MembersOf(rooms, r)

\* The part of C12 that holds: a connection listed in r's member list is
\* subscribed to r.
C12_MembersAreSubscribed ==
  \A r \in InheritedRoomIds : MembersOf(rooms, r) \subseteq RoomSockets(subs, r)

\* C13: every usersOnline broadcast carries exactly the global presence list
\* and every roomUsers broadcast for room r carries exactly r's member list,
\* as they are when the handler that emitted them has ended, whatever events
\* of other connections and whatever pending I/O surround that handler.
C13_BroadcastsCarryFinalLists ==
  \A i \in 1..Len(emitted) :
    /\ emitted[i].event = "usersOnline" => emitted[i].payload = onlineUsers
    /\ emitted[i].event = "roomUsers" =>
         emitted[i].payload = RoomUsers(rooms, emitted[i].room)

\* A disconnect has been handled while the backend notification of a join
\* is still pending; it changed a member list that keeps another entry, and
\* changed the presence list.
C13_Witness ==
  /\ last.ev = "disconnect"
  /\ pending > 0
  /\ \E i \in Emissions(emitted, "roomUsers") : emitted[i].payload # <<>>
  /\ \E i \in Emissions(emitted, "usersOnline") : emitted[i].payload # <<>>

\* C14: a message sent to room r and a roomUsers broadcast for r are delivered
\* only to connections subscribed to r when the handler emits them; a
\* leaveRoom(c, r) ends c's subscription to r and a disconnect ends all of
\* c's subscriptions, so neither receives what r is sent afterwards.
C14_RoomsAreIsolated ==
  [][/\ \A i \in 1..Len(emitted') :
          emitted'[i].event \in {"message", "roomUsers"} =>
            emitted'[i].to \subseteq {s \in Conns : emitted'[i].room \in subs'[s]}
     /\ \A c \in Conns, r \in RoomIds :
          Handled("leaveRoom", c) /\ LeaveRoom(c, r) => r \notin subs'[c]
     /\ \A c \in Conns :
          Handled("disconnect", c) /\ Disconnect(c) => subs'[c] = {}
     /\ \A c \in Conns, r \in RoomIds, user \in Authors, text \in Texts :
          Handled("sendMessage", c) /\ SendMessage(c, r, user, text) =>
            /\ subs' = subs
            /\ emitted'[1].to = {s \in Conns : r \in subs[s]}]_vars

\* A leaveRoom has been handled whose roomUsers broadcast went to the
\* connection that stays in the room and not to the one that left.
C14_Witness ==
  /\ last.ev = "leaveRoom"
  /\ Len(emitted) = 1
  /\ emitted[1].to # {}
  /\ last.conn \notin emitted[1].to
  /\ status[last.conn] = "open"

\* Member and presence entries as the handlers build them.
Member(c, username) == [socketId |-> c, username |-> username]
Presence(c, userId) == [socketId |-> c, userId |-> userId]

\* C15: the scenario, step by step, for any two connections A and B.  A
\* connects: the registry is [{A,""}].  A sends newUser("u1"): the registry
\* is [{A,"u1"}] and usersOnline carries it.  A joins r1 as "Alice":
\* roomUsers for r1 is [{A,"Alice"}].  B, connected, joins r1 as "Bob":
\* roomUsers is [{A,"Alice"},{B,"Bob"}].  A sends "hi" to r1: A and B receive
\* the message and one transcript append is started.  A disconnects:
\* roomUsers for r1 is [{B,"Bob"}] and usersOnline holds B's entry only.
C15_Scenario ==
  [][\A A \in Conns : \A B \in Conns \ {A} :
       /\ onlineUsers = <<>> /\ Handled("connect", A) /\ Connect(A) =>
            /\ onlineUsers' = <<Presence(A, "")>>
            /\ emitted' = <<Emit("usersOnline", Everyone, <<Presence(A, "")>>, {A})>>
       /\ onlineUsers = <<Presence(A, "")>>
            /\ Handled("newUser", A) /\ NewUser(A, "u1") =>
            /\ onlineUsers' = <<Presence(A, "u1")>>
            /\ emitted' = <<Emit("usersOnline", Everyone, <<Presence(A, "u1")>>, {A})>>
       /\ rooms = <<>> /\ subs[A] = {}
            /\ Handled("joinRoom", A)
            /\ (\E e \in Emails : JoinRoom(A, "r1", "Alice", e)) =>
            /\ rooms' = <<[roomId |-> "r1", users |-> <<Member(A, "Alice")>>]>>
            /\ emitted' = <<Emit("roomUsers", "r1", <<Member(A, "Alice")>>, {A})>>
       /\ rooms = <<[roomId |-> "r1", users |-> <<Member(A, "Alice")>>]>>
            /\ subs[A] = {"r1"}
            /\ Handled("joinRoom", B)
            /\ (\E e \in Emails : JoinRoom(B, "r1", "Bob", e)) =>
            /\ rooms' = <<[roomId |-> "r1",
                           users |-> <<Member(A, "Alice"), Member(B, "Bob")>>]>>
            /\ emitted' = <<Emit("roomUsers", "r1",
                                 <<Member(A, "Alice"), Member(B, "Bob")>>, {A, B})>>
       /\ subs[A] = {"r1"} /\ subs[B] = {"r1"}
            /\ Handled("sendMessage", A) /\ SendMessage(A, "r1", "Alice", "hi") =>
            /\ Len(emitted') = 1
            /\ emitted'[1].event = "message"
            /\ emitted'[1].payload.user = "Alice"
            /\ emitted'[1].payload.text = "hi"
            /\ emitted'[1].to = {A, B}
            /\ syncFs'
       /\ last.ev = "sendMessage" /\ TranscriptSync(TRUE) =>
            /\ appending' = appending + 1
            /\ emitted' = emitted
       /\ rooms = <<[roomId |-> "r1",
                     users |-> <<Member(A, "Alice"), Member(B, "Bob")>>]>>
            /\ onlineUsers = <<Presence(A, "u1"), Presence(B, "")>>
            /\ subs[B] = {"r1"}
            /\ Handled("disconnect", A) /\ Disconnect(A) =>
            /\ rooms' = <<[roomId |-> "r1", users |-> <<Member(B, "Bob")>>]>>
            /\ onlineUsers' = <<Presence(B, "")>>
            /\ emitted' = <<Emit("roomUsers", "r1", <<Member(B, "Bob")>>, {B}),
                            Emit("usersOnline", Everyone, <<Presence(B, "")>>, {B})>>]_vars

\* The end of the scenario: A has disconnected after one message was relayed
\* and its transcript append started; r1 lists Bob only and the registry
\* holds B's entry only, as the two broadcasts of the disconnect say.
C15_Witness ==
  \E A \in Conns : \E B \in Conns \ {A} :
    /\ last = Event("disconnect", A, FALSE)
    /\ status[A] = "closed"
    /\ rooms = <<[roomId |-> "r1", users |-> <<Member(B, "Bob")>>]>>
    /\ onlineUsers = <<Presence(B, "")>>
    /\ usedIds = {UuidPool[1]}
    /\ appending = 1
    /\ emitted = <<Emit("roomUsers", "r1", <<Member(B, "Bob")>>, {B}),
                   Emit("usersOnline", Everyone, <<Presence(B, "")>>, {B})>>

\* Positions of the entries of a list that do not belong to connection c.
KeptPositions(list, c) == {i \in 1..Len(list) : list[i].socketId # c}

\* The list that holds the entries at the kept positions, in their order.
Remaining(list, c) ==
  [k \in 1..Cardinality(KeptPositions(list, c)) |->
     list[CHOOSE i \in KeptPositions(list, c) :
            Cardinality({j \in KeptPositions(list, c) : j <= i}) = k]]

\* C16: joinRoom(c, r, name) appends the one entry {c, name} at the end of
\* r's member list and keeps every earlier entry in its place, also earlier
\* entries of c itself; leaveRoom and disconnect leave the entries of the
\* other connections, all of them and in their relative order.
C16_AppendAndKeepOrder ==
  [][/\ \A c \in Conns, r \in {"r1"}, n \in NamedUsernames, e \in Emails :
          Handled("joinRoom", c) /\ JoinRoom(c, r, n, e) =>
            RoomUsers(rooms', r) = Append(RoomUsers(rooms, r), Member(c, n))
     /\ \A c \in Conns, r \in {"r1"} :
          Handled("leaveRoom", c) /\ LeaveRoom(c, r) =>
            RoomUsers(rooms', r) = Remaining(RoomUsers(rooms, r), c)
     /\ \A c \in Conns :
          Handled("disconnect", c) /\ Disconnect(c) =>
            \A r \in {"r1"} :
              RoomUsers(rooms', r) = Remaining(RoomUsers(rooms, r), c)]_vars

\* A connection has joined r1 a second time, under another name, after
\* another connection joined: the list holds its two entries, first and
\* last, around the entry of the other one.
C16_Witness ==
  /\ last.ev = "joinRoom"
  /\ Len(RoomUsers(rooms, "r1")) = 3
  /\ RoomUsers(rooms, "r1")[1].socketId = last.conn
  /\ RoomUsers(rooms, "r1")[2].socketId # last.conn
  /\ RoomUsers(rooms, "r1")[3].socketId = last.conn
  /\ RoomUsers(rooms, "r1")[1].username # RoomUsers(rooms, "r1")[3].username

\* C17: a failure of an external collaborator is swallowed.  When the
\* transcript work of a sendMessage fails, in its synchronous part or in the
\* append, the message has been emitted to every subscriber of the room;
\* when the backend notification of a joinRoom fails, the member entry stays
\* and the roomUsers broadcast has been emitted.  In both cases nothing more
\* is emitted, the process keeps running, the tables are as the successful
\* case leaves them and the failed call is not started again.
C17_CollaboratorFailureIsSwallowed ==
  [][/\ FetchSettle(FALSE) =>
          /\ <<onlineUsers', rooms', subs'>> = <<onlineUsers, rooms, subs>>
          /\ emitted' = emitted
          /\ ~crashed'
          /\ pending' = pending - 1 /\ appending' = appending
          /\ last.ev = "joinRoom" /\ last.io =>
               /\ HasEntry(RoomUsers(rooms', emitted[1].room), last.conn)
               /\ emitted[1].event = "roomUsers"
     /\ AppendSettle(FALSE) =>
          /\ <<onlineUsers', rooms', subs'>> = <<onlineUsers, rooms, subs>>
          /\ emitted' = emitted
          /\ ~crashed'
          /\ appending' = appending - 1 /\ pending' = pending
     /\ TranscriptSync(FALSE) =>
          /\ <<onlineUsers', rooms', subs'>> = <<onlineUsers, rooms, subs>>
          /\ emitted' = emitted
          /\ Len(emitted) = 1 /\ emitted[1].event = "message"
          /\ emitted[1].to = RoomSockets(subs, emitted[1].room)
          /\ ~crashed'
          /\ appending' = appending /\ pending' = pending
     /\ \A ok \in BOOLEAN :
          /\ FetchSettle(ok) => FetchSettle(~ok)
          /\ AppendSettle(ok) => AppendSettle(~ok)]_vars

\* The backend notification of the join handled last has settled, and the
\* entry that join added is still listed.
C17_Witness ==
  /\ last.ev = "joinRoom"
  /\ last.io
  /\ pending = 0
  /\ ~crashed
  /\ Len(emitted) = 1
  /\ HasEntry(RoomUsers(rooms, emitted[1].room), last.conn)

\* External I/O started by a handler is in progress: the synchronous
\* directory calls of a sendMessage, its file append, or the backend
\* notification of a joinRoom.
IoInProgress == syncFs \/ appending > 0 \/ pending > 0

\* C18: while transcript work of a sendMessage (directory lookup, directory
\* creation, file append) or the backend notification of a joinRoom is in
\* progress, the events of other connections can be handled: a new
\* connection is accepted and a disconnect is processed, with their
\* broadcasts.
C18_NoHandlerBlocksOnIo ==
  IoInProgress /\ ~crashed =>
    \A c \in Conns :
      /\ status[c] = "new" => ENABLED Connect(c)
      /\ status[c] = "open" => ENABLED Disconnect(c)

\* The part of C18 that holds: the file append and the backend notification
\* hold nothing up.
C18_DetachedIoDoesNotBlock ==
  (appending > 0 \/ pending > 0) /\ ~syncFs /\ ~crashed =>
    \A c \in Conns :
      /\ status[c] = "new" => ENABLED Connect(c)
      /\ status[c] = "open" => ENABLED Disconnect(c)

\* C19: every inbound event, also one without a payload or with a payload
\* that lacks fields, ends without a fatal error, and it leaves the presence
\* list, the room table and the subscriptions either all as before the event
\* or all as after the complete mutation: a joinRoom subscribes and lists the
\* connection, or does neither.
C19_NoFatalErrorNoPartialMutation ==
  [][/\ ~crashed'
     /\ \A c \in Conns :
          Handled("joinRoom", c) /\ status[c] = "open" =>
            \/ <<onlineUsers', rooms', subs'>> = <<onlineUsers, rooms, subs>>
            \/ \E r \in InheritedRoomIds :
                 /\ subs' = [subs EXCEPT ![c] = @ \cup {r}]
                 /\ Len(RoomUsers(rooms', r)) = Len(RoomUsers(rooms, r)) + 1
                 /\ HasEntry(RoomUsers(rooms', r), c)]_vars

\* C20: a sendMessage, whatever its connection, room and payload fields and
\* however its transcript work ends, leaves the presence list, the room
\* table and the subscriptions as they were; these two tables are all the
\* state the server keeps, so the message is retained nowhere.
C20_SendMessageKeepsTheTables ==
  [][/\ \A c \in Conns, r \in InheritedRoomIds, user \in Authors, text \in Texts :
          Handled("sendMessage", c) /\ SendMessage(c, r, user, text) =>
            <<onlineUsers', rooms', subs', status'>>
              = <<onlineUsers, rooms, subs, status>>
     /\ \A fsOk \in BOOLEAN :
          TranscriptSync(fsOk) =>
            <<onlineUsers', rooms', subs', status'>>
              = <<onlineUsers, rooms, subs, status>>]_vars

\* A message has been relayed to a room with a subscriber while both tables
\* hold entries, and its transcript work has ended.
C20_Witness ==
  /\ last.ev = "sendMessage"
  /\ ~syncFs
  /\ Len(emitted) = 1
  /\ emitted[1].to # {}
  /\ onlineUsers # <<>>
  /\ rooms # <<>>
  /\ RoomUsers(rooms, emitted[1].room) # <<>>

\* C21: in every state between event handlers, every member entry of every
\* room belongs to a live connection: one that has connected, has not
\* disconnected and has an entry in the global presence list.
C21_MembersAreLive ==
  \A i \in 1..Len(rooms) : \A k \in 1..Len(rooms[i].users) :
    /\ status[rooms[i].users[k].socketId] = "open"
    /\ HasEntry(onlineUsers, rooms[i].users[k].socketId)

\* A disconnect has been handled while the table holds two rooms, both
\* created by earlier joins, and a backend notification is still pending: no
\* room lists the connection that went; the other connection is online.
C21_Witness ==
  /\ last.ev = "disconnect"
  /\ status[last.conn] = "closed"
  /\ Len(rooms) = 2
  /\ rooms[1].users = <<>>
  /\ rooms[2].users = <<>>
  /\ Len(onlineUsers) = 1
  /\ pending > 0

\* Number of entries connection c has in a member list.
EntriesOf(list, c) == Cardinality({i \in 1..Len(list) : list[i].socketId = c})

\* Number of the emissions in es that are delivered to connection c.
Deliveries(es, c) == Cardinality({i \in 1..Len(es) : c \in es[i].to})

\* C22: a connection that joins a room again has one more entry in its list
\* and the same single subscription; while it has several entries, each
\* sendMessage to the room and each roomUsers broadcast for it reaches it
\* exactly once; and one leaveRoom removes all of its entries and ends its
\* subscription.
C22_ManyEntriesOneSubscription ==
  [][\A c \in Conns, r \in {"r1"} :
       /\ \A n \in NamedUsernames, e \in Emails :
            /\ Handled("joinRoom", c) /\ JoinRoom(c, r, n, e)
            /\ EntriesOf(RoomUsers(rooms, r), c) >= 1 /\ r \in subs[c]
            => /\ EntriesOf(RoomUsers(rooms', r), c)
                    = EntriesOf(RoomUsers(rooms, r), c) + 1
               /\ subs'[c] = subs[c]
               /\ Deliveries(emitted', c) = 1
       /\ \A s \in Conns, user \in Authors, text \in Texts :
            /\ Handled("sendMessage", s) /\ SendMessage(s, r, user, text)
            /\ EntriesOf(RoomUsers(rooms, r), c) >= 2 /\ r \in subs[c]
            => Deliveries(emitted', c) = 1
       /\ \A s \in Conns \ {c} :
            /\ Handled("leaveRoom", s) /\ LeaveRoom(s, r)
            /\ EntriesOf(RoomUsers(rooms, r), c) >= 2 /\ r \in subs[c]
            => Deliveries(emitted', c) = 1
       /\ /\ Handled("leaveRoom", c) /\ LeaveRoom(c, r)
          /\ EntriesOf(RoomUsers(rooms, r), c) >= 2
          => /\ EntriesOf(RoomUsers(rooms', r), c) = 0
             /\ r \notin subs'[c]
             /\ Deliveries(emitted', c) = 0]_vars

\* A message has been relayed to a room in which a subscriber has two
\* entries.
C22_Witness ==
  /\ last.ev = "sendMessage"
  /\ Len(emitted) = 1
  /\ \E c \in emitted[1].to : EntriesOf(RoomUsers(rooms, emitted[1].room), c) = 2

\* C23: a joinRoom emits roomUsers after it has subscribed the connection,
\* so the joining connection receives the list that holds its own entry; a
\* leaveRoom emits after it has unsubscribed and a disconnect runs after the
\* transport has dropped the subscriptions, so the connection that leaves or
\* disconnects receives no broadcast of that handler.
C23_SubscriptionOrderedBeforeBroadcast ==
  [][\A c \in Conns, r \in {"r1"} :
       /\ \A n \in NamedUsernames, e \in Emails :
            Handled("joinRoom", c) /\ JoinRoom(c, r, n, e) =>
              /\ Len(emitted') = 1
              /\ emitted'[1].event = "roomUsers"
              /\ c \in emitted'[1].to
              /\ emitted'[1].payload[Len(emitted'[1].payload)] = Member(c, n)
       /\ Handled("leaveRoom", c) /\ LeaveRoom(c, r) =>
            /\ Len(emitted') = IF RoomIndex(rooms, r) # 0 THEN 1 ELSE 0
            /\ Deliveries(emitted', c) = 0
       /\ Handled("disconnect", c) /\ Disconnect(c) =>
            /\ Len(emitted') = Len(rooms) + 1
            /\ Deliveries(emitted', c) = 0]_vars

\* A connection has joined a room in which another connection is listed:
\* the roomUsers broadcast went to both and ends with the joiner's entry.
C23_Witness ==
  /\ last.ev = "joinRoom"
  /\ Len(emitted) = 1
  /\ emitted[1].to = Conns
  /\ Len(emitted[1].payload) = 2
  /\ emitted[1].payload[1].socketId # last.conn
  /\ emitted[1].payload[2].socketId = last.conn

====
